---- MODULE Spec2Model ----
(***************************************************************************)
(* PricePulse (shop-scout-live): the listing screen (src/pages/Index.tsx)  *)
(* and the authentication screen (src/pages/Auth.tsx) as a state machine.  *)
(*                                                                         *)
(* Prices are integers in hundredths of a currency unit (the column is     *)
(* DECIMAL(10,2) and every tick rounds with toFixed(2)), so 98999.00 is    *)
(* 9899900.  Strings are sequences of one-character strings.               *)
(* One action is one callback of the UI runtime together with the renders  *)
(* and effects React runs because of it.                                   *)
(***************************************************************************)
EXTENDS Integers, Sequences, FiniteSets, TLC

VARIABLES
    isLoaded,      \* useQuery: data !== undefined
    products,      \* useQuery data (the default [] until loaded)
    search,        \* useState("") of Index
    sessionUser,   \* useState<string|null>(null) of Index
    priceState,    \* useState<Record<id,{prev,curr}>>({}) of Index
    bestPriceRef,  \* useRef<Record<productId, number|undefined>>
    ticks,         \* number of timer ticks so far (bounded)
    toasts,        \* the notifications emitted by the latest step
    lastEvent,     \* the latest step: kind, source and price it carried
    route,         \* the screen displayed: "index" or "auth"
    session,       \* the auth collaborator's current session user
    authCall,      \* the in-flight call of Auth.handleSubmit
    loading,       \* useState(false) of Auth
    isSignUp,      \* useState(false) of Auth
    getResp,       \* the in-flight getSession() of the mounted screen
    notifQ,        \* session-change notifications not yet delivered
    signOutCall,   \* the in-flight signOut() of Index.handleSignOut
    timerOn,       \* the setInterval timer of Index is running
    channelOn      \* the realtime channel of Index is subscribed

vars == <<isLoaded, products, search, sessionUser, priceState, bestPriceRef,
          ticks, toasts, lastEvent, route, session, authCall, loading,
          isSignUp, getResp, notifQ, signOutCall, timerOn, channelOn>>

priceVars == <<isLoaded, products, search, priceState, bestPriceRef, ticks>>
subsVars == <<timerOn, channelOn>>
authVars == <<route, session, authCall, loading, isSignUp, getResp, notifQ,
              signOutCall, sessionUser>>

----------------------------------------------------------------------------
(* Bounds of the model *)

MaxLen == 2        \* longest search text typed
MaxTicks == 1      \* timer ticks in one behaviour
MaxNotif == 2      \* undelivered session-change notifications

(* Program constants *)

FLOOR == 10000     \* Math.max(100, ...) in hundredths
DropPctNum == 2    \* Math.abs(diff) / prev > 0.02
DeltaScale == 10000 \* deltaPct = d / 10000, d in -250..249: (Math.random() - 0.5) * 0.05

----------------------------------------------------------------------------
(* Strings *)

Chars == {"a", "A", "b", " "}

Strings(n) == UNION {[1..k -> Chars] : k \in 0..n}

LowerChar(c) == IF c = "A" THEN "a" ELSE c

toLowerCase(s) == [i \in 1..Len(s) |-> LowerChar(s[i])]

RECURSIVE trimStart(_)
trimStart(s) ==
    IF s # <<>> /\ Head(s) = " " THEN trimStart(Tail(s)) ELSE s

RECURSIVE trimEnd(_)
trimEnd(s) ==
    IF s # <<>> /\ s[Len(s)] = " " THEN trimEnd(SubSeq(s, 1, Len(s) - 1)) ELSE s

trim(s) == trimEnd(trimStart(s))

includes(s, q) ==
    \E i \in 0..(Len(s) - Len(q)) : SubSeq(s, i + 1, i + Len(q)) = q

----------------------------------------------------------------------------
(* Data delivered by the query collaborator *)

Src(id, price) == [id |-> id, current_price |-> price]

Prod(id, name, sources) == [id |-> id, name |-> name, product_sources |-> sources]

NameP1 == <<"A", "b">>
NameP2 == <<"b", "b">>

ProductLists ==
    { <<Prod("p1", NameP1, <<Src("s1", 9999900), Src("s2", 9899900)>>),
        Prod("p2", NameP2, <<>>)>>,
      <<Prod("p1", NameP1, <<Src("s1", 0), Src("s2", 500)>>)>>,
      <<Prod("p1", NameP1, <<Src("s1", 10100), Src("s2", 10000)>>),
        Prod("p2", NameP2, <<>>)>>,
      <<>> }

SourceIds == {"s1", "s2"}

UpdatePrices == {0, 9500000}

Deltas == {-250, -100, 249}

SearchProbes == {<<>>, <<"b", "b">>}

Range(f) == {f[i] : i \in DOMAIN f}

Min(S) == CHOOSE x \in S : \A y \in S : x <= y

Max2(a, b) == IF a >= b THEN a ELSE b

Abs(x) == IF x < 0 THEN -x ELSE x

----------------------------------------------------------------------------
(* Index.tsx: pure parts of the render and of the effects *)

NoPrices == [id \in {} |-> [prev |-> 0, curr |-> 0]]

NoBest == [id \in {} |-> 0]

Toast(kind, product, source, from, to, msg) ==
    [kind |-> kind, product |-> product, source |-> source,
     from |-> from, to |-> to, msg |-> msg]

Event(kind, source, price) == [kind |-> kind, source |-> source, price |-> price]

\* priceState[s.id]?.curr ?? s.current_price
CurrOf(ps, s) == IF s.id \in DOMAIN ps THEN ps[s.id].curr ELSE s.current_price

\* priceState[s.id]?.prev ?? s.current_price
PrevOf(ps, s) == IF s.id \in DOMAIN ps THEN ps[s.id].prev ELSE s.current_price

\* toFixed(2) of n / scale hundredths: the nearest hundredth, halves up
Round2(n, scale) == (2 * n + scale) \div (2 * scale)

\* filtered without the toLowerCase() of the product name
filtered_NoLower(prods, srch) ==
    LET q == toLowerCase(trim(srch))
    IN  IF q = <<>> THEN prods
        ELSE SelectSeq(prods, LAMBDA p : includes(p.name, q))

filtered(prods, srch) ==
    LET q == toLowerCase(trim(srch))
    IN  IF q = <<>> THEN prods
        ELSE SelectSeq(prods, LAMBDA p : includes(toLowerCase(p.name), q))

\* sources.reduce((acc, s) => ..., { price: 0 }) over the first n sources
RECURSIVE lowestUpTo(_, _, _)
lowestUpTo(sources, ps, n) ==
    IF n = 0 THEN [price |-> 0, source |-> "-"]
    ELSE LET acc == lowestUpTo(sources, ps, n - 1)
             curr == CurrOf(ps, sources[n])
         IN  IF acc.price = 0 \/ curr < acc.price
             THEN [price |-> curr, source |-> sources[n].id]
             ELSE acc

lowest(p, ps) == lowestUpTo(p.product_sources, ps, Len(p.product_sources))

\* const diff = +(curr - prev).toFixed(2)
diff(ps, s) == CurrOf(ps, s) - PrevOf(ps, s)

\* wentDown && Math.abs(diff) / prev > 0.02
notableDrop(ps, s) ==
    /\ CurrOf(ps, s) < PrevOf(ps, s)
    /\ Abs(diff(ps, s)) * 100 > DropPctNum * PrevOf(ps, s)

\* the toasts one render emits: one per row of a displayed product
RenderToasts(prods, srch, ps) ==
    { Toast("drop", p.id, s.id, PrevOf(ps, s), CurrOf(ps, s), "")
        : <<p, s>> \in { <<p, s>> \in UNION {{ <<pp, ss>> : ss \in Range(pp.product_sources)}
                                              : pp \in Range(filtered(prods, srch))}
                          : notableDrop(ps, s) } }

\* Math.min(...sources.map(s => priceState[s.id]?.curr ?? s.current_price))
currentMin(p, ps) == Min({CurrOf(ps, s) : s \in Range(p.product_sources)})

WithSources(prods) == {p \in Range(prods) : p.product_sources # <<>>}

ProdById(prods, pid) == CHOOSE p \in Range(prods) : p.id = pid

\* the notification effect: the toasts it emits
NotifyToasts(prods, ps, best) ==
    { Toast("lowest", p.id, "-", best[p.id], currentMin(p, ps), "")
        : p \in { p \in WithSources(prods)
                    : p.id \in DOMAIN best /\ currentMin(p, ps) < best[p.id] } }

\* the notification effect: bestPriceRef.current after it
NotifyBest(prods, ps, best) ==
    LET ids == {p.id : p \in WithSources(prods)}
    IN  [pid \in DOMAIN best \cup ids |->
            IF pid \in ids THEN currentMin(ProdById(prods, pid), ps) ELSE best[pid]]

\* the initialisation effect: the next price state
InitPriceState(prods) ==
    LET all == UNION {Range(p.product_sources) : p \in Range(prods)}
    IN  [sid \in {s.id : s \in all} |->
            LET s == CHOOSE s \in all : s.id = sid
            IN  [prev |-> s.current_price, curr |-> s.current_price]]

\* the initialisation effect: bestPriceRef.current after it
InitBest(prods, best) ==
    LET ids == {p.id : p \in WithSources(prods)}
        gone == {p.id : p \in Range(prods)} \ ids
    IN  [pid \in (DOMAIN best \ gone) \cup ids |->
            IF pid \in ids
            THEN Min({s.current_price : s \in Range(ProdById(prods, pid).product_sources)})
            ELSE best[pid]]

\* tickPrice without Math.max(100, ...)
tickPrice_NoFloor(curr, d) ==
    curr + (curr \div DeltaScale) * d + Round2((curr % DeltaScale) * d, DeltaScale)

\* tickPrice with the random factor 0.1 instead of 0.05
tickPrice_Wide(curr, d) ==
    Max2(FLOOR, curr + (curr \div DeltaScale) * (2 * d)
                     + Round2((curr % DeltaScale) * (2 * d), DeltaScale))

\* Math.max(100, +(curr * (1 + deltaPct)).toFixed(2)), deltaPct = d / 10000.
\* curr * (1 + deltaPct) = curr + curr * d / 10000, and curr * d is split as
\* (curr div 10000) * 10000 * d + (curr mod 10000) * d to stay in 32 bits.
tickPrice(curr, d) ==
    Max2(FLOOR, curr + (curr \div DeltaScale) * d
                     + Round2((curr % DeltaScale) * d, DeltaScale))

\* the timer callback's updater
tickState(ps, d) ==
    [id \in DOMAIN ps |-> [prev |-> ps[id].curr, curr |-> tickPrice(ps[id].curr, d[id])]]

\* updateState taking prev from the pair's old prev instead of its curr
updateState_StalePrev(ps, id, price) ==
    LET prev == IF id \in DOMAIN ps THEN ps[id].prev ELSE price
    IN  [i \in DOMAIN ps \cup {id} |->
            IF i = id THEN [prev |-> prev, curr |-> price] ELSE ps[i]]

\* the realtime callback's updater
updateState(ps, id, price) ==
    LET prev == IF id \in DOMAIN ps THEN ps[id].curr ELSE price
    IN  [i \in DOMAIN ps \cup {id} |->
            IF i = id THEN [prev |-> prev, curr |-> price] ELSE ps[i]]

----------------------------------------------------------------------------
(* Index.tsx: the callbacks of the listing screen *)

Mounted == route = "index"

\* the transient state of a freshly mounted listing screen, after its first
\* effects: useState initial values, then the initialisation effect
MountIndex ==
    /\ route' = "index"
    /\ search' = <<>>
    /\ sessionUser' = "none"
    /\ priceState' = InitPriceState(products)
    /\ bestPriceRef' = NotifyBest(products, InitPriceState(products),
                                  InitBest(products, NoBest))
    /\ getResp' = [st |-> "requested", user |-> "none"]
    /\ notifQ' = <<>>
    /\ timerOn' = TRUE
    /\ channelOn' = TRUE

\* useQuery delivers new data: render, initialisation effect and
\* notification effect, then the render and the notification effect that
\* setPriceState(next) causes
Load(data) ==
    /\ Mounted
    /\ ~isLoaded \/ data # products
    /\ LET r1 == RenderToasts(data, search, priceState)
           next == InitPriceState(data)
           b1 == InitBest(data, bestPriceRef)
           t1 == NotifyToasts(data, priceState, b1)
           b2 == NotifyBest(data, priceState, b1)
           r2 == RenderToasts(data, search, next)
           t2 == NotifyToasts(data, next, b2)
           b3 == NotifyBest(data, next, b2)
       IN  /\ products' = data
           /\ isLoaded' = TRUE
           /\ priceState' = next
           /\ bestPriceRef' = b3
           /\ toasts' = r1 \cup t1 \cup r2 \cup t2
    /\ lastEvent' = Event("load", "-", 0)
    /\ UNCHANGED <<search, ticks>>
    /\ UNCHANGED authVars
    /\ UNCHANGED subsVars

LoadProducts == \E data \in ProductLists : Load(data)

\* the setInterval callback, with one random delta per held source
Tick(d) ==
    /\ timerOn
    /\ ticks < MaxTicks
    /\ LET next == tickState(priceState, d)
       IN  /\ priceState' = next
           /\ toasts' = RenderToasts(products, search, next)
                            \cup NotifyToasts(products, next, bestPriceRef)
           /\ bestPriceRef' = NotifyBest(products, next, bestPriceRef)
    /\ ticks' = ticks + 1
    /\ lastEvent' = Event("tick", "-", 0)
    /\ UNCHANGED <<isLoaded, products, search>>
    /\ UNCHANGED authVars
    /\ UNCHANGED subsVars

TimerTick == \E d \in [DOMAIN priceState -> Deltas] : Tick(d)

\* the postgres_changes callback.  Until the query has data, products is a
\* fresh [] on every render, so the initialisation effect runs again after
\* the update and sets the price state back to {}.
Update(id, price) ==
    /\ channelOn
    /\ LET next == IF isLoaded THEN updateState(priceState, id, price) ELSE NoPrices
       IN  /\ priceState' = next
           /\ toasts' = RenderToasts(products, search, next)
                            \cup NotifyToasts(products, next, bestPriceRef)
           /\ bestPriceRef' = NotifyBest(products, next, bestPriceRef)
    /\ lastEvent' = Event("update", id, price)
    /\ UNCHANGED <<isLoaded, products, search, ticks>>
    /\ UNCHANGED authVars
    /\ UNCHANGED subsVars

RealtimeUpdate == \E id \in SourceIds, price \in UpdatePrices : Update(id, price)

\* onChange of the search field: setSearch and the render it causes
SetSearch(v) ==
    /\ Mounted
    /\ v # search
    /\ search' = v
    /\ toasts' = RenderToasts(products, v, priceState)
    /\ lastEvent' = Event("search", "-", 0)
    /\ UNCHANGED <<isLoaded, products, priceState, bestPriceRef, ticks>>
    /\ UNCHANGED authVars
    /\ UNCHANGED subsVars

TypeSearch == \E v \in Strings(MaxLen) : SetSearch(v)

TypeProbe == \E v \in SearchProbes : SetSearch(v)

----------------------------------------------------------------------------
(* The auth collaborator and the callbacks that depend on it *)

Users == {"none", "u1"}

ErrMsgs == {"", "Invalid login credentials"}

NoResp == [st |-> "idle", user |-> "none"]

\* err?.message || "Authentication error"
errText(msg) == IF msg = "" THEN "Authentication error" ELSE msg

\* setSessionUser(u) on the listing screen and the render it causes when
\* the value changes
SetSessionUser(u, emitted) ==
    /\ sessionUser' = u
    /\ toasts' = emitted \cup
                 (IF u # sessionUser
                  THEN RenderToasts(products, search, priceState) ELSE {})

\* navigate("/", { replace: true }) from the authentication screen: Auth is
\* unmounted (its subscription is removed) and Index is mounted
LeaveAuth ==
    /\ MountIndex
    /\ loading' = FALSE
    /\ isSignUp' = FALSE

\* LinkToAuth without the cleanups of the timer and channel effects
LinkToAuth_NoCleanup ==
    /\ Mounted
    /\ route' = "auth"
    /\ search' = <<>>
    /\ sessionUser' = "none"
    /\ priceState' = NoPrices
    /\ bestPriceRef' = NoBest
    /\ getResp' = [st |-> "requested", user |-> "none"]
    /\ notifQ' = <<>>
    /\ UNCHANGED subsVars
    /\ toasts' = {}
    /\ lastEvent' = Event("link", "-", 0)
    /\ UNCHANGED <<isLoaded, products, ticks, session, authCall, loading,
                   isSignUp, signOutCall>>

\* the header link to /auth: Index is unmounted, its effect cleanups run
\* (clearInterval, removeChannel, unsubscribe) and Auth is mounted
LinkToAuth ==
    /\ Mounted
    /\ route' = "auth"
    /\ search' = <<>>
    /\ sessionUser' = "none"
    /\ priceState' = NoPrices
    /\ bestPriceRef' = NoBest
    /\ getResp' = [st |-> "requested", user |-> "none"]
    /\ notifQ' = <<>>
    /\ timerOn' = FALSE
    /\ channelOn' = FALSE
    /\ toasts' = {}
    /\ lastEvent' = Event("link", "-", 0)
    /\ UNCHANGED <<isLoaded, products, ticks, session, authCall, loading,
                   isSignUp, signOutCall>>

\* the sign-in / sign-up toggle button of Auth
ToggleSignUp ==
    /\ route = "auth"
    /\ isSignUp' = ~isSignUp
    /\ toasts' = {}
    /\ lastEvent' = Event("toggle", "-", 0)
    /\ UNCHANGED priceVars
    /\ UNCHANGED subsVars
    /\ UNCHANGED <<route, session, authCall, loading, getResp, notifQ,
                   signOutCall, sessionUser>>

\* handleSubmit up to its await (the submit button is disabled while loading)
Submit ==
    /\ route = "auth"
    /\ ~loading
    /\ authCall = "none"
    /\ loading' = TRUE
    /\ authCall' = IF isSignUp THEN "signup" ELSE "signin"
    /\ toasts' = {}
    /\ lastEvent' = Event("submit", "-", 0)
    /\ UNCHANGED priceVars
    /\ UNCHANGED subsVars
    /\ UNCHANGED <<route, session, isSignUp, getResp, notifQ, signOutCall,
                   sessionUser>>

\* handleSubmitFail without the finally block
handleSubmitFail_NoFinally(msg) ==
    /\ authCall \in {"signin", "signup"}
    /\ authCall' = "none"
    /\ toasts' = {Toast("error", "-", "-", 0, 0, errText(msg))}
    /\ lastEvent' = Event("authfail", msg, 0)
    /\ UNCHANGED priceVars
    /\ UNCHANGED subsVars
    /\ UNCHANGED <<route, session, loading, isSignUp, getResp, notifQ,
                   signOutCall, sessionUser>>

\* handleSubmit after its await when the call returned an error:
\* throw, catch (toast.error) and finally (setLoading(false))
handleSubmitFail(msg) ==
    /\ authCall \in {"signin", "signup"}
    /\ authCall' = "none"
    /\ toasts' = {Toast("error", "-", "-", 0, 0, errText(msg))}
    /\ loading' = FALSE
    /\ lastEvent' = Event("authfail", msg, 0)
    /\ UNCHANGED priceVars
    /\ UNCHANGED subsVars
    /\ UNCHANGED <<route, session, isSignUp, getResp, notifQ, signOutCall,
                   sessionUser>>

SubmitFail == \E msg \in ErrMsgs : handleSubmitFail(msg)

\* handleSubmit after its await when signUp succeeded
SignUpSucceed ==
    /\ authCall = "signup"
    /\ authCall' = "none"
    /\ toasts' = {Toast("info", "-", "-", 0, 0, "Check your email to confirm and sign in.")}
    /\ loading' = FALSE
    /\ lastEvent' = Event("signup", "-", 0)
    /\ UNCHANGED priceVars
    /\ UNCHANGED subsVars
    /\ UNCHANGED <<route, session, isSignUp, getResp, notifQ, signOutCall,
                   sessionUser>>

\* signInWithPassword succeeds: the collaborator holds the session and
\* notifies the subscriber; handleSubmit toasts and navigates to "/"
SignInSucceed ==
    /\ authCall = "signin"
    /\ authCall' = "none"
    /\ session' = "u1"
    /\ lastEvent' = Event("signin", "-", 0)
    /\ toasts' = {Toast("info", "-", "-", 0, 0, "Welcome back!")}
    /\ IF route = "auth"
       THEN LeaveAuth
       ELSE /\ Len(notifQ) < MaxNotif
            /\ notifQ' = Append(notifQ, "u1")
            /\ UNCHANGED <<timerOn, channelOn, route, search, sessionUser, priceState,
                           bestPriceRef, getResp, loading, isSignUp>>
    /\ UNCHANGED <<isLoaded, products, ticks, signOutCall>>

\* getSession() reads the collaborator's session
GetSessionRead ==
    /\ getResp.st = "requested"
    /\ getResp' = [st |-> "read", user |-> session]
    /\ toasts' = {}
    /\ lastEvent' = Event("getread", "-", 0)
    /\ UNCHANGED priceVars
    /\ UNCHANGED subsVars
    /\ UNCHANGED <<route, session, authCall, loading, isSignUp, notifQ,
                   signOutCall, sessionUser>>

\* the .then callback of getSession()
GetSessionDeliver ==
    /\ getResp.st = "read"
    /\ lastEvent' = Event("getsession", "-", 0)
    /\ IF Mounted
       THEN /\ SetSessionUser(getResp.user, {})
            /\ getResp' = NoResp
            /\ UNCHANGED <<timerOn, channelOn, route, search, priceState, bestPriceRef, notifQ,
                           loading, isSignUp>>
       ELSE IF getResp.user # "none"
            THEN LeaveAuth /\ toasts' = {}
            ELSE /\ getResp' = NoResp
                 /\ toasts' = {}
                 /\ UNCHANGED <<timerOn, channelOn, route, search, sessionUser, priceState,
                                bestPriceRef, notifQ, loading, isSignUp>>
    /\ UNCHANGED <<isLoaded, products, ticks, session, authCall, signOutCall>>

\* the onAuthStateChange callback of the mounted screen
NotifyDeliver ==
    /\ notifQ # <<>>
    /\ lastEvent' = Event("authchange", "-", 0)
    /\ IF Mounted
       THEN /\ SetSessionUser(Head(notifQ), {})
            /\ notifQ' = Tail(notifQ)
            /\ UNCHANGED <<timerOn, channelOn, route, search, priceState, bestPriceRef, getResp,
                           loading, isSignUp>>
       ELSE IF Head(notifQ) # "none"
            THEN LeaveAuth /\ toasts' = {}
            ELSE /\ notifQ' = Tail(notifQ)
                 /\ toasts' = {}
                 /\ UNCHANGED <<timerOn, channelOn, route, search, sessionUser, priceState,
                                bestPriceRef, getResp, loading, isSignUp>>
    /\ UNCHANGED <<isLoaded, products, ticks, session, authCall, signOutCall>>

\* the session changes outside this screen (another tab, expiry)
SessionChange(u) ==
    /\ u # session
    /\ Len(notifQ) < MaxNotif
    /\ session' = u
    /\ notifQ' = Append(notifQ, u)
    /\ toasts' = {}
    /\ lastEvent' = Event("sessionchange", "-", 0)
    /\ UNCHANGED priceVars
    /\ UNCHANGED subsVars
    /\ UNCHANGED <<route, authCall, loading, isSignUp, getResp, signOutCall,
                   sessionUser>>

ExternalSessionChange == \E u \in Users : SessionChange(u)

\* handleSignOut up to its await (the button shows only when signed in)
SignOutClick ==
    /\ Mounted
    /\ sessionUser # "none"
    /\ signOutCall = "none"
    /\ signOutCall' = "pending"
    /\ toasts' = {}
    /\ lastEvent' = Event("signoutclick", "-", 0)
    /\ UNCHANGED priceVars
    /\ UNCHANGED subsVars
    /\ UNCHANGED <<route, session, authCall, loading, isSignUp, getResp,
                   notifQ, sessionUser>>

\* signOut() succeeds: the collaborator drops the session and notifies;
\* handleSignOut toasts "Signed out"
SignOutSucceed ==
    /\ signOutCall = "pending"
    /\ Len(notifQ) < MaxNotif
    /\ signOutCall' = "none"
    /\ session' = "none"
    /\ notifQ' = Append(notifQ, "none")
    /\ toasts' = {Toast("info", "-", "-", 0, 0, "Signed out")}
    /\ lastEvent' = Event("signout", "-", 0)
    /\ UNCHANGED priceVars
    /\ UNCHANGED subsVars
    /\ UNCHANGED <<route, authCall, loading, isSignUp, getResp, sessionUser>>

\* signOut() fails: toast.error(error.message)
handleSignOutFail(msg) ==
    /\ signOutCall = "pending"
    /\ signOutCall' = "none"
    /\ toasts' = {Toast("error", "-", "-", 0, 0, msg)}
    /\ lastEvent' = Event("signoutfail", "-", 0)
    /\ UNCHANGED priceVars
    /\ UNCHANGED subsVars
    /\ UNCHANGED <<route, session, authCall, loading, isSignUp, getResp,
                   notifQ, sessionUser>>

SignOutFail == \E msg \in ErrMsgs : handleSignOutFail(msg)

----------------------------------------------------------------------------
(* Specifications *)

InitCommon ==
    /\ isLoaded = FALSE
    /\ products = <<>>
    /\ search = <<>>
    /\ sessionUser = "none"
    /\ priceState = NoPrices
    /\ bestPriceRef = NoBest
    /\ ticks = 0
    /\ toasts = {}
    /\ lastEvent = Event("mount", "-", 0)
    /\ route = "index"
    /\ authCall = "none"
    /\ loading = FALSE
    /\ isSignUp = FALSE
    /\ getResp = [st |-> "requested", user |-> "none"]
    /\ notifQ = <<>>
    /\ signOutCall = "none"
    /\ timerOn = TRUE
    /\ channelOn = TRUE

Init == InitCommon /\ session = "none"

InitAuth == InitCommon /\ session \in Users

\* the listing screen's price state: load, timer, realtime, search
Next ==
    \/ LoadProducts
    \/ TimerTick
    \/ RealtimeUpdate
    \/ TypeProbe

Spec == Init /\ [][Next]_vars

\* the search field over every text up to MaxLen
NextSearch ==
    \/ LoadProducts
    \/ TypeSearch

SpecSearch == Init /\ [][NextSearch]_vars

\* the two screens and the auth collaborator
NextAuth ==
    \/ LoadProducts
    \/ LinkToAuth
    \/ ToggleSignUp
    \/ Submit
    \/ SubmitFail
    \/ SignUpSucceed
    \/ SignInSucceed
    \/ GetSessionRead
    \/ GetSessionDeliver
    \/ NotifyDeliver
    \/ ExternalSessionChange
    \/ SignOutClick
    \/ SignOutSucceed
    \/ SignOutFail

SpecAuth == InitAuth /\ [][NextAuth]_vars

\* the listing screen's price callbacks while the user leaves it for the
\* authentication screen and comes back by signing in
NextNav ==
    \/ LoadProducts
    \/ TimerTick
    \/ RealtimeUpdate
    \/ LinkToAuth
    \/ Submit
    \/ SubmitFail
    \/ SignInSucceed

SpecNav == Init /\ [][NextNav]_vars

----------------------------------------------------------------------------
(* Properties *)

Displayed == Range(filtered(products, search))

AllSources == UNION {{<<p, s>> : s \in Range(p.product_sources)} : p \in Range(products)}

PriceToasts(ts) == {t \in ts : t.kind \in {"drop", "lowest"}}

\* C1: for every displayed product with at least one source, the best price
\* the render computes (the reduce) equals the minimum of its sources'
\* current prices.  All prices of the model are non-negative.
C1_BestIsMin ==
    \A p \in Displayed :
        p.product_sources # <<>> =>
            lowest(p, priceState).price = currentMin(p, priceState)

\* name contains s, compared character by character without regard to case
ContainsCI(name, s) ==
    \E i \in 0..(Len(name) - Len(s)) :
        \A k \in 1..Len(s) : LowerChar(name[i + k]) = LowerChar(s[k])

\* C2 as stated: the displayed set is exactly the products whose name
\* contains the typed text case-insensitively (every product for the empty
\* text).
C2_ContainsTyped ==
    {p.id : p \in Displayed}
        = {p.id : p \in {x \in Range(products) : ContainsCI(x.name, search)}}

\* C2 amended: the displayed set is exactly the products whose name contains,
\* case-insensitively, the typed text with its leading and trailing
\* whitespace removed; every product when that trimmed text is empty.
C2_ContainsTrimmed ==
    {p.id : p \in Displayed}
        = {p.id : p \in {x \in Range(products) : ContainsCI(x.name, trim(search))}}

C2_Witness ==
    /\ lastEvent.kind = "search"
    /\ search # trim(search)
    /\ trim(search) # toLowerCase(trim(search))
    /\ Displayed # {}
    /\ Displayed # Range(products)

\* C3: right after a simulated price tick every held current price, and so
\* the current price of every source of a loaded product, is at least the
\* floor.
C3_TickFloor ==
    lastEvent.kind = "tick" =>
        /\ \A id \in DOMAIN priceState : priceState[id].curr >= FLOOR
        /\ \A ps \in AllSources : CurrOf(priceState, ps[2]) >= FLOOR

C3_Witness ==
    /\ lastEvent.kind = "tick"
    /\ \E id \in DOMAIN priceState :
          priceState[id].prev < FLOOR /\ priceState[id].curr = FLOOR

\* |after - before| <= 2.5% of before, up to half a hundredth of rounding
WithinPct(before, after) == Abs(after - before) * 1000 <= 25 * before + 500

\* C4 as stated: over a tick, every source's change is within 2.5% of the
\* price held before the tick (up to rounding), whatever that price was.
C4_TickBounded ==
    [][lastEvent'.kind = "tick" =>
          \A id \in DOMAIN priceState :
              WithinPct(priceState[id].curr, priceState'[id].curr)]_vars

\* C4 amended: over a tick, every source's change is within 2.5% of the
\* price held before the tick (up to rounding), unless that price was below
\* the floor and the tick raised it to exactly the floor.
C4_TickBoundedOrFloored ==
    [][lastEvent'.kind = "tick" =>
          \A id \in DOMAIN priceState :
              \/ WithinPct(priceState[id].curr, priceState'[id].curr)
              \/ /\ priceState[id].curr < FLOOR
                 /\ priceState'[id].curr = FLOOR]_vars

C4_Witness ==
    /\ lastEvent.kind = "tick"
    /\ \E id \in DOMAIN priceState :
          /\ priceState[id].prev > FLOOR
          /\ priceState[id].curr > FLOOR
          /\ priceState[id].curr # priceState[id].prev
    /\ \E id \in DOMAIN priceState :
          priceState[id].prev < FLOOR /\ priceState[id].curr = FLOOR

\* C5: over a load, a tick or an external update, a lowest-price
\* notification fires for a product with sources exactly when its minimum
\* current price after the step is strictly below the minimum recorded for
\* it before the step.
C5_LowestIffBelowRecorded ==
    [][lastEvent'.kind \in {"load", "tick", "update"} =>
          \A p \in WithSources(products') :
              (\E t \in toasts' : t.kind = "lowest" /\ t.product = p.id)
                  <=> /\ p.id \in DOMAIN bestPriceRef
                      /\ currentMin(p, priceState') < bestPriceRef[p.id]]_vars

\* C6: an external update with price q for a source held at current price p
\* sets that source's pair to (p, q), its row's delta to q - p, and changes
\* no other source's pair.
C6_UpdatePair ==
    [][\A id \in SourceIds :
          (lastEvent'.kind = "update" /\ lastEvent'.source = id
             /\ id \in DOMAIN priceState) =>
              /\ DOMAIN priceState' = DOMAIN priceState
              /\ priceState'[id] = [prev |-> priceState[id].curr,
                                    curr |-> lastEvent'.price]
              /\ \A ps \in AllSources :
                    ps[2].id = id =>
                        diff(priceState', ps[2]) = lastEvent'.price - priceState[id].curr
              /\ \A o \in DOMAIN priceState \ {id} :
                    priceState'[o] = priceState[o]]_vars

C6_Witness ==
    /\ lastEvent = Event("update", "s2", 9500000)
    /\ "s1" \in DOMAIN priceState
    /\ "s2" \in DOMAIN priceState
    /\ priceState["s2"] = [prev |-> 9899900, curr |-> 9500000]
    /\ \E ps \in AllSources : ps[2].id = "s2" /\ diff(priceState, ps[2]) = -399900

\* C7: over a tick or an external update, every source of a loaded product
\* whose current price drops by more than 2% gets a per-source price-drop
\* notification, whatever the search text.
C7_DropNotified ==
    [][lastEvent'.kind \in {"tick", "update"} =>
          \A ps \in AllSources :
              LET id == ps[2].id
              IN  (/\ id \in DOMAIN priceState
                   /\ id \in DOMAIN priceState'
                   /\ priceState'[id].curr < priceState[id].curr
                   /\ (priceState[id].curr - priceState'[id].curr) * 100
                          > DropPctNum * priceState[id].curr)
                  => \E t \in toasts' : t.kind = "drop" /\ t.source = id]_vars

\* C8: the step in which a sign-in or sign-up call fails leaves the route
\* unchanged, shows exactly one notification, an error carrying the
\* failure's message, and leaves the form ready for another submit.
C8_FailStaysOnForm ==
    [][(authCall \in {"signin", "signup"} /\ lastEvent'.kind = "authfail") =>
          /\ route' = route
          /\ \E t \in toasts' :
                /\ t.kind = "error"
                /\ lastEvent'.source # "" => t.msg = lastEvent'.source
          /\ \A t \in toasts' : t.kind = "error"
          /\ ~loading'
          /\ authCall' = "none"]_vars

C8_Witness ==
    /\ lastEvent.kind = "authfail"
    /\ lastEvent.source # ""
    /\ route = "auth"
    /\ ~loading
    /\ \E t \in toasts : t.kind = "error" /\ t.msg = lastEvent.source

\* C9: on the listing screen, once no get-current-session response and no
\* session-change notification is in flight, the header shows the auth
\* collaborator's current session.
C9_HeaderReflectsSession ==
    (route = "index" /\ getResp.st = "idle" /\ notifQ = <<>>) =>
        sessionUser = session

\* C10: a step that changes no price (a search keystroke, an auth-state
\* change, a get-current-session response, a sign-out) emits no lowest-price
\* and no per-source price-drop notification.
C10_NoPriceNoToast ==
    [][lastEvent'.kind \in {"search", "authchange", "getsession", "signout",
                            "signoutclick", "signoutfail"} =>
          PriceToasts(toasts') = {}]_vars

\* C11: while the listing screen is not displayed its timer and its
\* realtime channel are torn down; no step is a timer tick or an external
\* update, and as long as the screen stays away the transient price state does
\* not change and no price notification is emitted.
C11_TornDownWhenAway ==
    [][route # "index" =>
          /\ ~timerOn
          /\ ~channelOn
          /\ lastEvent'.kind \notin {"tick", "update"}
          /\ route' # "index" =>
                /\ priceState' = priceState
                /\ bestPriceRef' = bestPriceRef
                /\ PriceToasts(toasts') = {}]_vars

C11_Witness ==
    /\ route = "auth"
    /\ lastEvent.kind \in {"submit", "authfail"}
    /\ ticks < MaxTicks
    /\ WithSources(products) # {}
    /\ ~timerOn
    /\ ~channelOn

====
